---- MODULE Spec2Model ----
(***************************************************************************)
(* A model of main.py, the Mixed Museum notification bot: the reply-driven *)
(* frequency store, the cadence scheduler, the news collector, the GA4     *)
(* comparison and the run that chains them.                                *)
(*                                                                         *)
(* Text (str) is a sequence of characters, so that strip, lower, upper,     *)
(* splitlines and split act on characters as Python's do.  A character is  *)
(* the string made of it; a character that a string of this module cannot  *)
(* hold (U+2000 and beyond) is the string naming its code point, "U+2028".  *)
(* The alphabet is ASCII, the whitespace of Unicode and the characters     *)
(* outside ASCII that str.lower or str.upper takes into ASCII: the Kelvin  *)
(* sign, the sharp s, the dotless i, the long s and the ligatures ff..st.  *)
(* A date is its proleptic Gregorian ordinal (datetime.date.toordinal).    *)
(***************************************************************************)
EXTENDS Integers, Sequences, FiniteSets, TLC

VARIABLES
    \* the run (the __main__ block and the handlers it calls)
    pc,             \* position of the run in __main__
    file,           \* contents of frequency.txt, or NoFile
    inbox,          \* messages[0].split(): the UNSEEN messages the search found
    num,            \* index of the next message to fetch (0: not connected)
    file0,          \* contents of frequency.txt when the inbox loop was entered
    today,          \* datetime.utcnow().date() of this run, as an ordinal (0: not read)
    utc_date,       \* the UTC date at the latest reading of a clock in this run
    freq,           \* __main__'s freq
    news_step,      \* position inside build_news_section
    pending,        \* articles build_news_section has still to summarise
    section,        \* build_news_section's section so far
    news,           \* __main__'s news
    ga4_step,       \* how far build_ga4_section_with_charts got inside its try
    windows,        \* the day windows get_ga4_data has queried in this run
    ga4_html,       \* __main__'s ga4_html
    images,         \* __main__'s images
    outbox,         \* the messages this run handed to SMTP
    failed,         \* the calls that raised in this run, each with its error text
    runs,           \* number of runs started
    \* parse_command_from_reply applied to a body
    body, command,
    \* should_send_email applied to a frequency on a date
    frequency, date, send,
    \* the deduplication loop of get_news_articles applied to search results
    articles, clean_articles,
    \* the comparison loop of summarise_ga4_with_comparison
    df_now, df_prev, metric, combined

runLocals == <<file, inbox, num, file0, today, utc_date, freq, news_step, pending,
               section, news, ga4_step, windows, ga4_html, images, outbox, failed,
               runs>>
runVars   == <<pc, runLocals>>
parseVars == <<body, command>>
schedVars == <<frequency, date, send>>
dedupVars == <<articles, clean_articles>>
cmpVars   == <<df_now, df_prev, metric, combined>>
vars      == <<runVars, parseVars, schedVars, dedupVars, cmpVars>>

-----------------------------------------------------------------------------
(* Text *)

\* Python's None, where a str is expected
None == <<"<None>">>

UpperChars == <<"A","B","C","D","E","F","G","H","I","J","K","L","M",
                "N","O","P","Q","R","S","T","U","V","W","X","Y","Z">>
LowerChars == <<"a","b","c","d","e","f","g","h","i","j","k","l","m",
                "n","o","p","q","r","s","t","u","v","w","x","y","z">>

\* the control characters without an escape, and the spaces of Latin-1 and
\* Ogham, written as themselves
VT   == ""      \* U+000B, line tabulation
FS   == ""      \* U+001C, file separator
GS   == ""      \* U+001D, group separator
RS   == ""      \* U+001E, record separator
US   == ""      \* U+001F, unit separator
NEL  == ""      \* U+0085, next line
NBSP == " "      \* U+00A0, no-break space
OGHAM_SPACE == " "     \* U+1680, Ogham space mark

\* U+2028 LINE SEPARATOR and U+2029 PARAGRAPH SEPARATOR
UnicodeLineBreaks == {"U+2028", "U+2029"}

\* the spaces U+2000..U+200A, U+202F, U+205F and U+3000
UnicodeSpaces == {"U+2000", "U+2001", "U+2002", "U+2003", "U+2004", "U+2005",
                  "U+2006", "U+2007", "U+2008", "U+2009", "U+200A",
                  "U+202F", "U+205F", "U+3000"}

\* U+212A KELVIN SIGN: str.lower gives "k", str.upper leaves it
KELVIN == "U+212A"

\* str.isspace for one character: what str.strip removes
Whitespace == {" ", "\t", "\n", "\r", "\f", VT, FS, GS, RS, US, NEL, NBSP,
               OGHAM_SPACE} \cup UnicodeSpaces \cup UnicodeLineBreaks
\* the line boundaries of str.splitlines
LineBreaks == {"\n", "\r", "\f", VT, FS, GS, RS, NEL} \cup UnicodeLineBreaks

IndexIn(c, chars) == CHOOSE k \in 1..Len(chars) : chars[k] = c

lower_char(c) ==
    IF \E k \in 1..Len(UpperChars) : UpperChars[k] = c
    THEN LowerChars[IndexIn(c, UpperChars)]
    ELSE IF c = KELVIN THEN "k" ELSE c

\* the characters outside ASCII whose str.upper is ASCII text, each with it:
\* U+00DF sharp s, U+0131 dotless i, U+017F long s, U+FB00..U+FB06 ligatures
SHARP_S == "ß"
SpecialUpper ==
    << <<SHARP_S, <<"S","S">> >>,
       <<"U+0131", <<"I">> >>,
       <<"U+017F", <<"S">> >>,
       <<"U+FB00", <<"F","F">> >>,
       <<"U+FB01", <<"F","I">> >>,
       <<"U+FB02", <<"F","L">> >>,
       <<"U+FB03", <<"F","F","I">> >>,
       <<"U+FB04", <<"F","F","L">> >>,
       <<"U+FB05", <<"S","T">> >>,
       <<"U+FB06", <<"S","T">> >> >>

\* str.upper of one character: text of one to three characters
upper_char(c) ==
    IF \E k \in 1..Len(LowerChars) : LowerChars[k] = c
    THEN <<UpperChars[IndexIn(c, LowerChars)]>>
    ELSE IF \E k \in 1..Len(SpecialUpper) : SpecialUpper[k][1] = c
    THEN SpecialUpper[CHOOSE k \in 1..Len(SpecialUpper) : SpecialUpper[k][1] = c][2]
    ELSE <<c>>

\* str.lower
lower(s) == [k \in 1..Len(s) |-> lower_char(s[k])]

RECURSIVE concat(_)
concat(seqs) == IF seqs = <<>> THEN <<>> ELSE Head(seqs) \o concat(Tail(seqs))

\* str.upper
upper(s) == concat([k \in 1..Len(s) |-> upper_char(s[k])])

\* str.strip
strip(s) ==
    LET keep == {k \in 1..Len(s) : s[k] \notin Whitespace}
    IN  IF keep = {} THEN <<>>
        ELSE SubSeq(s, CHOOSE a \in keep : \A k \in keep : a <= k,
                       CHOOSE b \in keep : \A k \in keep : k <= b)

\* str.startswith
startswith(s, prefix) ==
    /\ Len(prefix) <= Len(s)
    /\ SubSeq(s, 1, Len(prefix)) = prefix

\* str.splitlines
RECURSIVE splitlines(_)
splitlines(s) ==
    IF s = <<>> THEN <<>>
    ELSE LET breaks == {k \in 1..Len(s) : s[k] \in LineBreaks}
             k == IF breaks = {} THEN Len(s) + 1
                  ELSE CHOOSE a \in breaks : \A b \in breaks : a <= b
             skip == IF k < Len(s) /\ s[k] = "\r" /\ s[k + 1] = "\n"
                     THEN k + 1 ELSE k
         IN  <<SubSeq(s, 1, k - 1)>> \o splitlines(SubSeq(s, skip + 1, Len(s)))

\* str.split(sep)[0] for a one-character sep
split_first(s, sep) ==
    LET at == {k \in 1..Len(s) : s[k] = sep}
    IN  IF at = {} THEN s
        ELSE SubSeq(s, 1, (CHOOSE a \in at : \A b \in at : a <= b) - 1)

-----------------------------------------------------------------------------
(* Frequency control *)

DAILY       == <<"D","A","I","L","Y">>
WEEKLY      == <<"W","E","E","K","L","Y">>
FORTNIGHTLY == <<"F","O","R","T","N","I","G","H","T","L","Y">>

\* the list literal of parse_command_from_reply
CommandWords == { <<"d","a","i","l","y">>,
                  <<"w","e","e","k","l","y">>,
                  <<"f","o","r","t","n","i","g","h","t","l","y">> }

ALLOWED_SENDERS ==
    << <<"c","h","a","m","i","o","n","@","t","h","e","m","i","x","e","d",
         "m","u","s","e","u","m",".","o","r","g">> >>

\* os.path.exists(FREQUENCY_FILE) is false
NoFile == <<"<no file>">>

\* f.read() of a file opened with open(FREQUENCY_FILE, "r"): text mode with
\* universal newlines, where "\r\n" and a "\r" on its own are read as "\n"
RECURSIVE read_text(_)
read_text(contents) ==
    IF contents = <<>> THEN <<>>
    ELSE IF Head(contents) = "\r"
         THEN <<"\n">> \o read_text(IF Len(contents) >= 2 /\ contents[2] = "\n"
                                    THEN Tail(Tail(contents))
                                    ELSE Tail(contents))
         ELSE <<Head(contents)>> \o read_text(Tail(contents))

get_current_frequency(f) ==
    IF f = NoFile THEN DAILY ELSE upper(strip(read_text(f)))

\* the contents of frequency.txt after update_frequency(new_freq)
update_frequency(new_freq) == upper(new_freq)

\* scan_lines without the break at the first real line
RECURSIVE scan_lines_no_break(_)
scan_lines_no_break(lines) ==
    IF lines = <<>> THEN None
    ELSE LET cleaned == lower(strip(Head(lines)))
         IN  IF cleaned \in CommandWords THEN upper(cleaned)
             ELSE scan_lines_no_break(Tail(lines))

\* scan_lines taking the first real line for the command, whatever it says
RECURSIVE scan_lines_any_word(_)
scan_lines_any_word(lines) ==
    IF lines = <<>> THEN None
    ELSE LET cleaned == lower(strip(Head(lines)))
         IN  IF cleaned # <<>> /\ ~startswith(cleaned, <<">">>) THEN upper(cleaned)
             ELSE scan_lines_any_word(Tail(lines))

RECURSIVE scan_lines(_)
scan_lines(lines) ==
    IF lines = <<>> THEN None
    ELSE LET cleaned == lower(strip(Head(lines)))
         IN  IF cleaned \in CommandWords THEN upper(cleaned)
             ELSE IF cleaned # <<>> /\ ~startswith(cleaned, <<">">>) THEN None
             ELSE scan_lines(Tail(lines))

parse_command_from_reply(b) == scan_lines(splitlines(b))

-----------------------------------------------------------------------------
(* Dates *)

\* datetime.date(y, m, d).toordinal(): days of the proleptic Gregorian
\* calendar, 0001-01-01 being day 1
toordinal(y, m, d) ==
    LET yy  == IF m <= 2 THEN y - 1 ELSE y
        era == yy \div 400
        yoe == yy - era * 400
        mp  == IF m > 2 THEN m - 3 ELSE m + 9
        doy == (153 * mp + 2) \div 5 + d - 1
        doe == yoe * 365 + yoe \div 4 - yoe \div 100 + doy
    IN  era * 146097 + doe - 305

\* the year, month and day of an ordinal, as the number YYYYMMDD: the digits
\* of strftime('%Y%m%d') and of BigQuery's FORMAT_DATE('%Y%m%d', ...), whose
\* order as eight-digit text is the order of these numbers
format_date(ord) ==
    LET z   == ord + 305
        era == z \div 146097
        doe == z - era * 146097
        yoe == (doe - doe \div 1460 + doe \div 36524 - doe \div 146096) \div 365
        doy == doe - (365 * yoe + yoe \div 4 - yoe \div 100)
        mp  == (5 * doy + 2) \div 153
        d   == doy - (153 * mp + 2) \div 5 + 1
        m   == IF mp < 10 THEN mp + 3 ELSE mp - 9
        y   == yoe + era * 400 + (IF m <= 2 THEN 1 ELSE 0)
    IN  y * 10000 + m * 100 + d

\* datetime.date.weekday(): Monday is 0
weekday(ord) == (ord + 6) % 7

-----------------------------------------------------------------------------
(* Cadence scheduler *)

\* anchor = datetime(2024, 5, 6).date()
anchor == toordinal(2024, 5, 6)

\* should_send_email with the weekday test of the FORTNIGHTLY branch left out
should_send_email_any_day(f, t) ==
    IF f = DAILY THEN TRUE
    ELSE IF f = WEEKLY THEN weekday(t) = 0
    ELSE IF f = FORTNIGHTLY THEN ((t - anchor) \div 7) % 2 = 0
    ELSE FALSE

should_send_email(f, t) ==
    IF f = DAILY THEN TRUE
    ELSE IF f = WEEKLY THEN weekday(t) = 0
    ELSE IF f = FORTNIGHTLY
         THEN ((t - anchor) \div 7) % 2 = 0 /\ weekday(t) = 0
    ELSE FALSE

-----------------------------------------------------------------------------
(* News collector *)

\* the loop of get_news_articles over articles.get('articles', []):
\* an article is a record with its 'url' and 'title'
\* dedup remembering the URL as given, query string included
RECURSIVE dedup_raw_url(_, _)
dedup_raw_url(results, seen_urls) ==
    IF results = <<>> THEN <<>>
    ELSE LET article == Head(results)
             url     == split_first(article.url, "?")
         IN  IF url \notin seen_urls
             THEN <<article>> \o dedup_raw_url(Tail(results),
                                               seen_urls \cup {article.url})
             ELSE dedup_raw_url(Tail(results), seen_urls)

RECURSIVE dedup(_, _)
dedup(results, seen_urls) ==
    IF results = <<>> THEN <<>>
    ELSE LET article == Head(results)
             url     == split_first(article.url, "?")
         IN  IF url \notin seen_urls
             THEN <<article>> \o dedup(Tail(results), seen_urls \cup {url})
             ELSE dedup(Tail(results), seen_urls)

get_news_articles(results) == dedup(results, {})

-----------------------------------------------------------------------------
(* GA4 comparison *)

\* the metric families of the loop of summarise_ga4_with_comparison
Metrics == <<"pageviews", "countries", "sources">>

\* .head(5)
HeadRows == 5

\* a frame is the sequence of its rows, each with a metric, a label and a
\* value; the same label may stand on several rows
\* df[df['metric'] == metric].set_index('label')
select(df, m) == SelectSeq(df, LAMBDA r : r.metric = m)

\* the rows of the frame that carry the label, by position
labelled(rows, l) == {i \in 1..Len(rows) : rows[i].label = l}

labels(rows) == {rows[i].label : i \in 1..Len(rows)}

\* the value column of one side of a joined row after .fillna(0): position 0
\* stands for the side that has no row under the label
value_or_0(rows, i) == IF i = 0 THEN 0 ELSE rows[i].value

\* a row of the joined frame, made of row i of now and row j of prev
joined(now, prev, l, i, j) ==
    [label |-> l, value_now |-> value_or_0(now, i),
     value_prev |-> value_or_0(prev, j), left |-> i, right |-> j]

\* the join with how='left': the rows of the current window only
left_join(now, prev) ==
    UNION { { joined(now, prev, l, i, j) :
                  i \in labelled(now, l),
                  j \in IF labelled(prev, l) = {} THEN {0} ELSE labelled(prev, l) } :
            l \in labels(now) }

\* now.join(prev, lsuffix='_now', rsuffix='_prev', how='outer').fillna(0): one
\* row for every pair of rows of now and prev under the same label, and one
\* for every row whose label the other frame lacks
outer_join(now, prev) ==
    UNION { { joined(now, prev, l, i, j) :
                  i \in IF labelled(now, l) = {} THEN {0} ELSE labelled(now, l),
                  j \in IF labelled(prev, l) = {} THEN {0} ELSE labelled(prev, l) } :
            l \in labels(now) \cup labels(prev) }

\* combined['value_prev'].replace(0, 1)
replace_0_by_1(v) == IF v = 0 THEN 1 ELSE v

\* the row with its 'change': the quotient num / den, kept as a fraction
with_change(r) ==
    [label |-> r.label, value_now |-> r.value_now, value_prev |-> r.value_prev,
     left |-> r.left, right |-> r.right,
     change |-> [num |-> (r.value_now - r.value_prev) * 100,
                 den |-> replace_0_by_1(r.value_prev)]]

\* .sort_values(by='value_now', ascending=False).head(n): every order the
\* sort may leave rows of equal value_now in (the default sort is not stable)
RECURSIVE sort_head(_, _)
sort_head(rows, n) ==
    IF n = 0 \/ rows = {} THEN { <<>> }
    ELSE UNION { { <<r>> \o t : t \in sort_head(rows \ {r}, n - 1) } :
                 r \in {x \in rows : \A y \in rows : y.value_now <= x.value_now} }

\* the index and the columns value_now, value_prev and change of the rows
columns(sorted) ==
    [k \in 1..Len(sorted) |->
        [label |-> sorted[k].label, value_now |-> sorted[k].value_now,
         value_prev |-> sorted[k].value_prev, change |-> sorted[k].change]]

\* the values 'combined' may have at the end of one pass of the loop
compare(now_df, prev_df, m) ==
    { columns(sorted) :
          sorted \in sort_head({ with_change(r) :
                                     r \in outer_join(select(now_df, m),
                                                      select(prev_df, m)) },
                               HeadRows) }

-----------------------------------------------------------------------------
(* Inbound commands *)

\* sender.lower() not in [a.lower() for a in ALLOWED_SENDERS], negated, with
\* everyone let through
is_allowed_anyone(sender) == TRUE

\* sender.lower() in [a.lower() for a in ALLOWED_SENDERS]; the sender is the
\* address email.utils.parseaddr found in the From header
is_allowed(sender) ==
    lower(sender) \in {lower(ALLOWED_SENDERS[k]) : k \in 1..Len(ALLOWED_SENDERS)}

\* the text of the parts of the given content type, in walk order
RECURSIVE parts_text(_, _)
parts_text(parts, type) ==
    IF parts = <<>> THEN <<>>
    ELSE (IF Head(parts).type = type THEN Head(parts).text ELSE <<>>)
             \o parts_text(Tail(parts), type)

\* the body check_email_for_command extracts: the text/plain parts of a
\* multipart message, the whole payload of any other
extract_body(msg) ==
    IF msg.multipart THEN parts_text(msg.parts, "text/plain")
    ELSE msg.parts[1].text

\* frequency.txt after the loop body of check_email_for_command ran on msg
process_message(f, msg) ==
    IF ~is_allowed(msg.sender) THEN f
    ELSE LET cmd == parse_command_from_reply(extract_body(msg))
         IN  IF cmd # None THEN update_frequency(cmd) ELSE f

-----------------------------------------------------------------------------
(* News section *)

not_relevant == <<"n","o","t"," ","r","e","l","e","v","a","n","t">>

\* response.choices[0].message.content.strip()
summarise_article(content) == strip(content)

\* the block build_news_section appends for a kept article
news_block(article, summary) ==
    <<"<b>", article.title, "</b><br>">> \o summary \o <<"<br><a href='">>
        \o article.url \o <<"'>">> \o article.url \o <<"</a><br><br>">>

\* section after one pass of the loop of build_news_section
add_article(sec, article, summary) ==
    IF lower(summary) # not_relevant THEN sec \o news_block(article, summary)
    ELSE sec

\* return section if section else "No relevant news articles today."
news_section(sec) ==
    IF sec # <<>> THEN sec ELSE <<"No relevant news articles today.">>

-----------------------------------------------------------------------------
(* GA4 section *)

\* start_offset and end_offset of get_ga4_data
start_offset(period) == IF period = "recent" THEN 3 ELSE 6
end_offset(period)   == IF period = "recent" THEN 0 ELSE 3

\* the days whose events_YYYYMMDD table the query of get_ga4_data(period)
\* reads when CURRENT_DATE() is t: _TABLE_SUFFIX BETWEEN the two formatted
\* dates, ends included
get_ga4_window(period, t) ==
    { d \in (t - 10)..(t + 1) :
          /\ format_date(t - start_offset(period)) <= format_date(d)
          /\ format_date(d) <= format_date(t - end_offset(period)) }

\* the calls inside the try of build_ga4_section_with_charts, in order
Ga4Steps == <<"recent", "previous", "summarise", "chart_sources", "chart_countries">>

ga4_next(step) ==
    LET k == CHOOSE j \in 1..Len(Ga4Steps) : Ga4Steps[j] = step
    IN  IF k = Len(Ga4Steps) THEN "return" ELSE Ga4Steps[k + 1]

\* html of the try branch; the table and the summary are left opaque
ga4_section == <<"<pre>", "{table}", "</pre><br><b>AI Summary:</b><br>", "{summary}">>

ga4_charts == <<"chart_sources.png", "chart_countries.png">>

\* the except branch: f"(warning sign) Error retrieving GA4 data: {e}"
ga4_warning(e) == <<"(!) Error retrieving GA4 data: ">> \o e

-----------------------------------------------------------------------------
(* Email *)

\* enumerate(images) counts from 0
ImageIndex == <<"0", "1">>

\* img_html of send_daily_email
img_html(imgs) ==
    concat([i \in 1..Len(imgs) |->
               <<"<img src=\"cid:img", ImageIndex[i], "\" style=...><br>">>])

\* html_body of send_daily_email
html_body(news_html, ga4, imgs) ==
    <<"<html>...<h2>Relevant News Opportunities</h2>">> \o news_html
        \o <<"<h2>Website Trends from GA4</h2>">> \o ga4 \o img_html(imgs)
        \o <<"<br><b>To change the frequency of these emails, ...</b>...</html>">>

\* the message send_daily_email hands to server.send_message
report_message(subject, news_html, ga4, imgs) ==
    [subject |-> subject, html |-> html_body(news_html, ga4, imgs),
     attachments |-> imgs]

-----------------------------------------------------------------------------
(* The statements of the __main__ block *)

\* the __main__ block with the two sections built in the other order
main_block_ga4_first ==
    <<"check_email_for_command", "get_current_frequency", "should_send_email",
      "build_ga4_section_with_charts", "build_news_section", "send_daily_email">>

main_block ==
    <<"check_email_for_command", "get_current_frequency", "should_send_email",
      "build_news_section", "build_ga4_section_with_charts", "send_daily_email">>

\* the statement after stmt, or "done" after the last
after(stmt) ==
    LET k == CHOOSE j \in 1..Len(main_block) : main_block[j] = stmt
    IN  IF k = Len(main_block) THEN "done" ELSE main_block[k + 1]

-----------------------------------------------------------------------------
(* Values the variables of an operation hold while another one is checked *)

IdleRun ==
    /\ pc = "idle" /\ file = NoFile /\ inbox = <<>> /\ num = 0
    /\ file0 = NoFile /\ today = 0 /\ utc_date = 0 /\ freq = None
    /\ news_step = "fetch"
    /\ pending = <<>> /\ section = <<>> /\ news = None /\ ga4_step = "recent"
    /\ windows = <<>> /\ ga4_html = None /\ images = <<>> /\ outbox = <<>>
    /\ failed = {} /\ runs = 0
IdleParse == body = <<>> /\ command = None
IdleSched == frequency = None /\ date = anchor /\ send = FALSE
IdleDedup == articles = <<>> /\ clean_articles = <<>>
IdleCmp   == df_now = <<>> /\ df_prev = <<>> /\ metric = "none" /\ combined = <<>>

-----------------------------------------------------------------------------
(* parse_command_from_reply on every body of at most MaxPieces pieces *)

MaxPieces == 4

Pieces == { <<"d","a","i","l","y">>,
            <<"W","e","e",KELVIN,"l","y">>,
            <<"F","O","R","T","N","I","G","H","T","L","Y">>,
            <<">"," ","o","n"," ","M","o","n","\n">>,
            <<"x">>, <<" ">>, <<">">>, <<"\n">>, <<"\r">>, <<VT>>, <<US>> }

RECURSIVE BodiesUpTo(_)
BodiesUpTo(n) ==
    IF n = 0 THEN { <<>> }
    ELSE LET shorter == BodiesUpTo(n - 1)
         IN  shorter \cup { b \o p : b \in shorter, p \in Pieces }

InitParse ==
    /\ body \in BodiesUpTo(MaxPieces)
    /\ command = None
    /\ IdleRun /\ IdleSched /\ IdleDedup /\ IdleCmp

CallParse ==
    /\ pc = "idle"
    /\ command' = parse_command_from_reply(body)
    /\ pc' = "returned"
    /\ UNCHANGED runLocals
    /\ UNCHANGED <<body, schedVars, dedupVars, cmpVars>>

NextParse == CallParse

SpecParse == InitParse /\ [][NextParse]_vars

-----------------------------------------------------------------------------
(* should_send_email on every date within DateSpan days of the anchor *)

DateSpan == 30

\* contents frequency.txt may have been given by hand
FrequencyFiles == { NoFile, <<" ","w","e","e","k","l","y","\n">>,
                    <<"d","a","i","l","y","\r","\n">>,
                    <<"W","E","E","K","\r","L","Y">>,
                    <<"D","A","I","L","Y","\r","\n","W","E","E","K","L","Y">>,
                    <<"f","o","r","t","n","U+0131","g","h","t","l","y">>,
                    <<"U+FB06","r","a",SHARP_S,"e",NBSP>> }

Frequencies == { DAILY, WEEKLY, FORTNIGHTLY,
                 <<"d","a","i","l","y">>, <<"M","O","N","T","H","L","Y">>, <<>> }
                   \cup { get_current_frequency(f) : f \in FrequencyFiles }

InitSched ==
    /\ frequency \in Frequencies
    /\ date \in (anchor - DateSpan)..(anchor + DateSpan)
    /\ send = FALSE
    /\ IdleRun /\ IdleParse /\ IdleDedup /\ IdleCmp

CallSched ==
    /\ pc = "idle"
    /\ send' = should_send_email(frequency, date)
    /\ pc' = "returned"
    /\ UNCHANGED runLocals
    /\ UNCHANGED <<frequency, date, parseVars, dedupVars, cmpVars>>

NextSched == CallSched

SpecSched == InitSched /\ [][NextSched]_vars

-----------------------------------------------------------------------------
(* get_news_articles on every list of at most MaxResults search results *)

MaxResults == 4

Urls == { <<"a">>, <<"a","?","1">>, <<"a","?","2">>, <<"a","?","1","?","2">>,
          <<"b">>, <<"b","?","1">>, <<"?","1">> }

Titles == <<"T1", "T2", "T3", "T4", "T5", "T6">>

\* the search results with the given URLs, the k-th titled Titles[k]
Results(urls) == [k \in 1..Len(urls) |-> [url |-> urls[k], title |-> Titles[k]]]

InitDedup ==
    /\ \E n \in 0..MaxResults : \E urls \in [1..n -> Urls] : articles = Results(urls)
    /\ clean_articles = <<>>
    /\ IdleRun /\ IdleParse /\ IdleSched /\ IdleCmp

CallDedup ==
    /\ pc = "idle"
    /\ clean_articles' = get_news_articles(articles)
    /\ pc' = "returned"
    /\ UNCHANGED runLocals
    /\ UNCHANGED <<articles, parseVars, schedVars, cmpVars>>

NextDedup == CallDedup

SpecDedup == InitDedup /\ [][NextDedup]_vars

-----------------------------------------------------------------------------
(* The loop of summarise_ga4_with_comparison on every pair of frames with  *)
(* at most MaxLabels labels in one family                                  *)

MaxLabels == 6

\* the label of the k-th group of a family.  A family grouped by one column
\* has one row to a label; the label of 'sources' is CONCAT(source, ' / ',
\* medium) of a group by source and medium, so that two groups may share it
\* (source 'a / b' with medium 'c', source 'a' with medium 'b / c'; a NULL
\* source or medium): there the fourth group has the label of the first
LabelNames(m) ==
    IF m = "sources"
    THEN <<"a / b / c", "L2", "L3", "a / b / c", "L5", "L6", "L7", "L8">>
    ELSE <<"L1", "L2", "L3", "L4", "L5", "L6", "L7", "L8">>

\* the size of the k-th group: the first two are as large as each other (so
\* that their rows tie in the sort), a later one k times as large
Scale(k) == IF k <= 2 THEN 1 ELSE k

\* what the two queries may hold for the k-th group: a new entrant, a group
\* halved since the previous window, a group of the previous window only, or
\* no row at all
RowChoices(k) ==
    { [now |-> 120 * Scale(k), prev |-> 0],
      [now |-> 25 * Scale(k), prev |-> 50 * Scale(k)],
      [now |-> 0, prev |-> 50 * Scale(k)],
      [now |-> 0, prev |-> 0] }

\* a choice for each of the first n groups
RECURSIVE Choices(_)
Choices(n) ==
    IF n = 0 THEN { <<>> }
    ELSE { Append(choice, r) : choice \in Choices(n - 1), r \in RowChoices(n) }

\* the rows of one window for family m: COUNT(*) of a group is never 0
frame(m, choice, side) ==
    concat([k \in 1..Len(choice) |->
               IF choice[k][side] # 0
               THEN << [metric |-> m, label |-> LabelNames(m)[k],
                        value |-> choice[k][side]] >>
               ELSE <<>>])

\* rows of the other two families, one of them under a label of family m too
other_rows(m, side) ==
    SelectSeq(<< [metric |-> "pageviews", label |-> "L1",
                  value |-> IF side = "now" THEN 7 ELSE 3],
                 [metric |-> "countries", label |-> "L1",
                  value |-> IF side = "now" THEN 2 ELSE 8],
                 [metric |-> "sources", label |-> "L2",
                  value |-> IF side = "now" THEN 4 ELSE 4] >>,
              LAMBDA r : r.metric # m)

InitCmp ==
    /\ \E m \in {Metrics[k] : k \in 1..Len(Metrics)} :
       \E choice \in Choices(MaxLabels) :
           /\ df_now = other_rows(m, "now") \o frame(m, choice, "now")
           /\ df_prev = other_rows(m, "prev") \o frame(m, choice, "prev")
    /\ metric = "none"
    /\ combined = <<>>
    /\ IdleRun /\ IdleParse /\ IdleSched /\ IdleDedup

\* one pass of `for metric in ['pageviews', 'countries', 'sources']`
ComparePass ==
    /\ pc = "idle"
    /\ \E k \in 1..Len(Metrics) :
           /\ metric = (IF k = 1 THEN "none" ELSE Metrics[k - 1])
           /\ metric' = Metrics[k]
           /\ combined' \in compare(df_now, df_prev, Metrics[k])
    /\ UNCHANGED <<df_now, df_prev, runVars, parseVars, schedVars, dedupVars>>

NextCmp == ComparePass

SpecCmp == InitCmp /\ [][NextCmp]_vars

-----------------------------------------------------------------------------
(* Runs of the program, one after another on the same frequency.txt *)

MaxRuns  == 2
MaxInbox == 2
MaxFound == 2
\* the midnights UTC a run may last through
MaxMidnights == 1

Allowed  == ALLOWED_SENDERS[1]
Stranger == <<"e","v","e","@","e","x","a","m","p","l","e",".","o","r","g">>

text_plain(t) == [type |-> "text/plain", text |-> t]
text_html(t)  == [type |-> "text/html", text |-> t]

\* unread messages the mailbox may hold
Messages ==
    { [sender |-> Allowed, multipart |-> FALSE,
       parts |-> <<text_plain(<<NBSP,"w","e","e","k","l","y",US,FS,"o","k">>)>>],
      [sender |-> upper(Allowed), multipart |-> TRUE,
       parts |-> <<text_plain(<<">"," ","o","n"," ","M","o","n","\r","\n",
                                " ","F","o","r","t","n","i","g","h","t","l","y",
                                "\n","t","h","a","n","k","s">>),
                   text_html(<<"d","a","i","l","y">>)>>],
      [sender |-> Allowed, multipart |-> FALSE,
       parts |-> <<text_plain(<<"D","A","I","L","Y">>)>>],
      [sender |-> Allowed, multipart |-> FALSE,
       parts |-> <<text_plain(<<"h","i","U+2028","d","a","i","l","y">>)>>],
      [sender |-> Stranger, multipart |-> FALSE,
       parts |-> <<text_plain(<<"f","o","r","t","n","i","g","h","t","l","y">>)>>] }

Inboxes == UNION { [1..n -> Messages] : n \in 0..MaxInbox }

\* the days the runs happen on: a Monday of an on week, a Sunday, a Monday of
\* an off week, and a Saturday whose windows span the end of February
RunDates == { anchor - 14, anchor - 1, anchor + 7, toordinal(2024, 3, 2) }

\* what the search may return
FoundUrls == { <<"a","?","1">>, <<"a","?","2">>, <<"b">> }

\* what the summarisation call may answer
Contents == { <<"N","o","t"," ","r","e","l","e","v","a","n","t","\n",VT>>,
              <<"N","o","t"," ","r","e","l","e","v","a","n","t",".">>,
              <<"A"," ","s","u","m","m","a","r","y",".">> }

ErrorTexts == { <<"403 Forbidden">>, <<"timed out">> }

Subject == "The Mixed Museum: Media & Analytics Brief"

Init ==
    /\ pc = main_block[1]
    /\ file = NoFile
    /\ file0 = NoFile
    /\ inbox = <<>> /\ num = 0
    /\ today = 0 /\ utc_date = 0 /\ freq = None
    /\ news_step = "fetch" /\ pending = <<>> /\ section = <<>> /\ news = None
    /\ ga4_step = "recent" /\ windows = <<>> /\ ga4_html = None /\ images = <<>>
    /\ outbox = <<>> /\ failed = {}
    /\ runs = 1
    /\ IdleParse /\ IdleSched /\ IdleDedup /\ IdleCmp

others == <<parseVars, schedVars, dedupVars, cmpVars>>

\* the uncaught exception e of a call ends the run
Raise(call, e) ==
    /\ failed' = failed \cup {<<call, e>>}
    /\ pc' = "aborted"

\* EMAIL_FROM or EMAIL_PASSWORD is not set: check_email_for_command returns
CheckEmailNoCredentials ==
    /\ pc = "check_email_for_command"
    /\ num = 0
    /\ pc' = after("check_email_for_command")
    /\ UNCHANGED <<runLocals, others>>

\* login, select and search: the unread messages, whatever they are
SearchUnseen ==
    /\ pc = "check_email_for_command"
    /\ num = 0
    /\ inbox' \in Inboxes
    /\ num' = 1
    /\ file0' = file
    /\ UNCHANGED <<pc, file, today, utc_date, freq, news_step, pending, section, news,
                   ga4_step, windows, ga4_html, images, outbox, failed, runs, others>>

\* the IMAP connection, the login, the search or a fetch raises
CheckEmailFails ==
    /\ pc = "check_email_for_command"
    /\ \E e \in ErrorTexts : Raise("imaplib", e)
    /\ UNCHANGED <<file, inbox, num, file0, today, utc_date, freq, news_step, pending,
                   section, news, ga4_step, windows, ga4_html, images, outbox, runs,
                   others>>

\* one pass of the loop over the unread messages
FetchMessage ==
    /\ pc = "check_email_for_command"
    /\ 1 <= num /\ num <= Len(inbox)
    /\ file' = process_message(file, inbox[num])
    /\ num' = num + 1
    /\ UNCHANGED <<pc, inbox, file0, today, utc_date, freq, news_step, pending,
                   section, news, ga4_step, windows, ga4_html, images, outbox, failed,
                   runs, others>>

\* mail.logout() after the last message; the function's locals are gone
Logout ==
    /\ pc = "check_email_for_command"
    /\ 1 <= num /\ num > Len(inbox)
    /\ pc' = after("check_email_for_command")
    /\ inbox' = <<>>
    /\ num' = 0
    /\ file0' = file
    /\ UNCHANGED <<file, today, utc_date, freq, news_step, pending, section, news,
                   ga4_step, windows, ga4_html, images, outbox, failed, runs, others>>

\* freq = get_current_frequency()
ReadFrequency ==
    /\ pc = "get_current_frequency"
    /\ freq' = get_current_frequency(file)
    /\ pc' = after("get_current_frequency")
    /\ UNCHANGED <<file, inbox, num, file0, today, utc_date, news_step, pending,
                   section, news, ga4_step, windows, ga4_html, images, outbox, failed,
                   runs, others>>

\* if should_send_email(freq): ... else: print("Not time to send report")
ShouldSend ==
    /\ pc = "should_send_email"
    /\ \E t \in RunDates :
           /\ today' = t
           /\ utc_date' = t
           /\ pc' = IF should_send_email(freq, t) THEN after("should_send_email")
                    ELSE "skipped"
    /\ UNCHANGED <<file, inbox, num, file0, freq, news_step, pending,
                   section, news, ga4_step, windows, ga4_html, images, outbox, failed,
                   runs, others>>

\* get_news_articles() inside build_news_section
FetchArticles ==
    /\ pc = "build_news_section"
    /\ news_step = "fetch"
    /\ \E n \in 0..MaxFound : \E urls \in [1..n -> FoundUrls] :
           pending' = get_news_articles(Results(urls))
    /\ section' = <<>>
    /\ news_step' = "loop"
    /\ UNCHANGED <<pc, file, inbox, num, file0, today, utc_date, freq, news,
                   ga4_step, windows, ga4_html, images, outbox, failed, runs, others>>

\* the search request raises
FetchArticlesFails ==
    /\ pc = "build_news_section"
    /\ news_step = "fetch"
    /\ \E e \in ErrorTexts : Raise("get_news_articles", e)
    /\ UNCHANGED <<file, inbox, num, file0, today, utc_date, freq, news_step, pending,
                   section, news, ga4_step, windows, ga4_html, images, outbox, runs,
                   others>>

\* one pass of the loop of build_news_section
SummariseArticle ==
    /\ pc = "build_news_section"
    /\ news_step = "loop"
    /\ pending # <<>>
    /\ \E content \in Contents :
           section' = add_article(section, Head(pending), summarise_article(content))
    /\ pending' = Tail(pending)
    /\ UNCHANGED <<pc, file, inbox, num, file0, today, utc_date, freq, news_step, news,
                   ga4_step, windows, ga4_html, images, outbox, failed, runs, others>>

\* summarise_article raises and the loop goes on to the next article
SummariseArticleFailsSkipped ==
    /\ pc = "build_news_section"
    /\ news_step = "loop"
    /\ pending # <<>>
    /\ \E e \in ErrorTexts : failed' = failed \cup {<<"summarise_article", e>>}
    /\ pending' = Tail(pending)
    /\ UNCHANGED <<pc, file, inbox, num, file0, today, utc_date, freq, news_step, section, news,
                   ga4_step, windows, ga4_html, images, outbox, runs, others>>

\* summarise_article raises: nothing in build_news_section or __main__ catches it
SummariseArticleFails ==
    /\ pc = "build_news_section"
    /\ news_step = "loop"
    /\ pending # <<>>
    /\ \E e \in ErrorTexts : Raise("summarise_article", e)
    /\ UNCHANGED <<file, inbox, num, file0, today, utc_date, freq, news_step, pending,
                   section, news, ga4_step, windows, ga4_html, images, outbox, runs,
                   others>>

\* news = build_news_section() returns
ReturnNews ==
    /\ pc = "build_news_section"
    /\ news_step = "loop"
    /\ pending = <<>>
    /\ news' = news_section(section)
    /\ section' = <<>>
    /\ news_step' = "done"
    /\ pc' = after("build_news_section")
    /\ UNCHANGED <<file, inbox, num, file0, today, utc_date, freq, pending,
                   ga4_step, windows, ga4_html, images, outbox, failed, runs, others>>

\* get_ga4_data(period='recent'), then get_ga4_data(period='previous'): each
\* query has the warehouse read CURRENT_DATE() when it runs, which is the day
\* of the latest reading or, midnight UTC having passed since, a later one
Ga4Query ==
    /\ pc = "build_ga4_section_with_charts"
    /\ ga4_step \in {"recent", "previous"}
    /\ \E d \in utc_date..(today + MaxMidnights) :
           /\ utc_date' = d
           /\ windows' = Append(windows, get_ga4_window(ga4_step, d))
    /\ ga4_step' = ga4_next(ga4_step)
    /\ UNCHANGED <<pc, file, inbox, num, file0, today, freq, news_step,
                   pending, section, news, ga4_html, images, outbox, failed, runs,
                   others>>

\* the comparison loop and the summarisation call, then the two charts
Ga4Step ==
    /\ pc = "build_ga4_section_with_charts"
    /\ ga4_step \in {"summarise", "chart_sources", "chart_countries"}
    /\ ga4_step' = ga4_next(ga4_step)
    /\ UNCHANGED <<pc, file, inbox, num, file0, today, utc_date, freq, news_step,
                   pending, section, news, windows, ga4_html, images, outbox, failed,
                   runs, others>>

\* return html, [("chart_sources.png", ...), ("chart_countries.png", ...)]
Ga4Return ==
    /\ pc = "build_ga4_section_with_charts"
    /\ ga4_step = "return"
    /\ ga4_html' = ga4_section
    /\ images' = ga4_charts
    /\ ga4_step' = "done"
    /\ pc' = after("build_ga4_section_with_charts")
    /\ UNCHANGED <<file, inbox, num, file0, today, utc_date, freq, news_step, pending,
                   section, news, windows, outbox, failed, runs, others>>

\* a call inside the try raises, and the except branch charged with the whole
\* section lets a failing chart through
Ga4FailsChartsOutsideTry ==
    /\ pc = "build_ga4_section_with_charts"
    /\ ga4_step \in {Ga4Steps[k] : k \in 1..Len(Ga4Steps)}
    /\ \E e \in ErrorTexts :
           IF ga4_step \in {"chart_sources", "chart_countries"}
           THEN /\ Raise(ga4_step, e)
                /\ UNCHANGED <<ga4_html, images, ga4_step>>
           ELSE /\ failed' = failed \cup {<<ga4_step, e>>}
                /\ ga4_html' = ga4_warning(e)
                /\ images' = <<>>
                /\ ga4_step' = "failed"
                /\ pc' = after("build_ga4_section_with_charts")
    /\ UNCHANGED <<file, inbox, num, file0, today, utc_date, freq, news_step, pending,
                   section, news, windows, outbox, runs, others>>

\* a call inside the try raises: except Exception as e returns the warning
Ga4Fails ==
    /\ pc = "build_ga4_section_with_charts"
    /\ ga4_step \in {Ga4Steps[k] : k \in 1..Len(Ga4Steps)}
    /\ \E e \in ErrorTexts :
           /\ failed' = failed \cup {<<ga4_step, e>>}
           /\ ga4_html' = ga4_warning(e)
    /\ images' = <<>>
    /\ ga4_step' = "failed"
    /\ pc' = after("build_ga4_section_with_charts")
    /\ UNCHANGED <<file, inbox, num, file0, today, utc_date, freq, news_step, pending,
                   section, news, windows, outbox, runs, others>>

\* send_daily_email(subject, news, ga4_html, images) returns
SendEmail ==
    /\ pc = "send_daily_email"
    /\ outbox' = Append(outbox, report_message(Subject, news, ga4_html, images))
    /\ pc' = after("send_daily_email")
    /\ UNCHANGED <<file, inbox, num, file0, today, utc_date, freq, news_step, pending,
                   section, news, ga4_step, windows, ga4_html, images, failed, runs,
                   others>>

\* the connection, starttls, login or send_message raises: no message is
\* handed over
SendEmailFails ==
    /\ pc = "send_daily_email"
    /\ \E e \in ErrorTexts : Raise("smtplib", e)
    /\ UNCHANGED <<file, inbox, num, file0, today, utc_date, freq, news_step, pending,
                   section, news, ga4_step, windows, ga4_html, images, outbox, runs,
                   others>>

\* server.send_message has taken the message, and then the print of line 403
\* (its text on a stdout that cannot encode it) or the QUIT of the with block
\* raises
SendEmailFailsAfterSend ==
    /\ pc = "send_daily_email"
    /\ outbox' = Append(outbox, report_message(Subject, news, ga4_html, images))
    /\ \E e \in ErrorTexts : Raise("after send_message", e)
    /\ UNCHANGED <<file, inbox, num, file0, today, utc_date, freq, news_step, pending,
                   section, news, ga4_step, windows, ga4_html, images, runs,
                   others>>

\* the process ends: nothing of the run is left but frequency.txt
Exit ==
    /\ pc \in {"done", "skipped", "aborted"}
    /\ pc' = "exited"
    /\ inbox' = <<>> /\ num' = 0 /\ file0' = file
    /\ today' = 0 /\ utc_date' = 0 /\ freq' = None
    /\ news_step' = "fetch" /\ pending' = <<>> /\ section' = <<>> /\ news' = None
    /\ ga4_step' = "recent" /\ windows' = <<>> /\ ga4_html' = None /\ images' = <<>>
    /\ outbox' = <<>> /\ failed' = {}
    /\ UNCHANGED <<file, runs, others>>

\* the scheduler starts the program again
NextRun ==
    /\ pc = "exited"
    /\ runs < MaxRuns
    /\ runs' = runs + 1
    /\ pc' = main_block[1]
    /\ UNCHANGED <<file, inbox, num, file0, today, utc_date, freq, news_step, pending, section,
                   news, ga4_step, windows, ga4_html, images, outbox, failed, others>>

Next ==
    \/ CheckEmailNoCredentials \/ SearchUnseen \/ CheckEmailFails
    \/ FetchMessage \/ Logout
    \/ ReadFrequency \/ ShouldSend
    \/ FetchArticles \/ FetchArticlesFails \/ SummariseArticle
    \/ SummariseArticleFails \/ ReturnNews
    \/ Ga4Query \/ Ga4Step \/ Ga4Return \/ Ga4Fails
    \/ SendEmail \/ SendEmailFails \/ SendEmailFailsAfterSend
    \/ Exit \/ NextRun

Spec == Init /\ [][Next]_vars

-----------------------------------------------------------------------------
(* Claims about the cadence scheduler, the command parser and the          *)
(* deduplication                                                           *)

\* a Monday is a whole number of weeks away from Monday 2024-01-01
IsMonday(d) == (d - toordinal(2024, 1, 1)) % 7 = 0

\* the floor of (d - anchor) / 7 is the w with 7w <= d - anchor < 7w + 7
WholeWeeksEven(d) ==
    \E w \in (0 - DateSpan - 1)..(DateSpan + 1) :
        /\ 7 * w <= d - anchor
        /\ d - anchor < 7 * w + 7
        /\ \E h \in (0 - DateSpan - 1)..(DateSpan + 1) : w = 2 * h

\* C1: should_send_email is true for DAILY; for WEEKLY true iff the date is a
\* Monday; for FORTNIGHTLY true iff the date is a Monday and the floor-divided
\* number of whole weeks from the anchor 2024-05-06 to the date is even (dates
\* before the anchor included); and false for every other value.
C1_ShouldSend ==
    pc = "returned" =>
        /\ frequency = DAILY => send = TRUE
        /\ frequency = WEEKLY => (send <=> IsMonday(date))
        /\ frequency = FORTNIGHTLY =>
               (send <=> (IsMonday(date) /\ WholeWeeksEven(date)))
        /\ frequency \notin {DAILY, WEEKLY, FORTNIGHTLY} => send = FALSE

\* a fortnightly send on a Monday an even number of weeks before the anchor
C1_Witness ==
    /\ pc = "returned"
    /\ frequency = FORTNIGHTLY
    /\ date = anchor - 28
    /\ send = TRUE

IsBlank(line) == \A k \in 1..Len(line) : line[k] \in Whitespace

\* the first character of the line that is not whitespace is '>'
IsQuoted(line) ==
    \E k \in 1..Len(line) :
        /\ line[k] = ">"
        /\ \A j \in 1..(k - 1) : line[j] \in Whitespace

IsSubstantive(line) == ~IsBlank(line) /\ ~IsQuoted(line)

\* the lines of the body up to and including its first substantive line
DecidingLines(b) ==
    LET lines == splitlines(b)
        subst == {k \in 1..Len(lines) : IsSubstantive(lines[k])}
    IN  IF subst = {} THEN lines
        ELSE SubSeq(lines, 1, CHOOSE a \in subst : \A k \in subst : a <= k)

\* the command a single line spells, if any
CommandOf(line) ==
    IF \E c \in {DAILY, WEEKLY, FORTNIGHTLY} : lower(c) = lower(strip(line))
    THEN CHOOSE c \in {DAILY, WEEKLY, FORTNIGHTLY} : lower(c) = lower(strip(line))
    ELSE None

\* C2: parse_command_from_reply skips blank lines and quoted lines (first
\* non-blank character '>') and decides on the first remaining line only: the
\* cadence in upper case if that line, trimmed and lower-cased, is daily, weekly
\* or fortnightly, and no command otherwise; no line after it influences the
\* result, and a body without a substantive line gives no command.
C2_ParseFirstSubstantiveLine ==
    pc = "returned" =>
        LET deciding == DecidingLines(body)
        IN  IF deciding = <<>> \/ ~IsSubstantive(deciding[Len(deciding)])
            THEN command = None
            ELSE command = CommandOf(deciding[Len(deciding)])

\* "Weekly" after a quoted line and before another line is read as WEEKLY
C2_Witness ==
    /\ pc = "returned"
    /\ command = WEEKLY
    /\ LET lines == splitlines(body)
       IN  /\ Len(lines) >= 3
           /\ IsQuoted(lines[1])
           /\ Len(DecidingLines(body)) = 2

\* c is u up to, and without, its first '?'
IsCanonical(c, u) ==
    /\ Len(c) <= Len(u)
    /\ \A k \in 1..Len(c) : c[k] = u[k] /\ c[k] # "?"
    /\ Len(c) < Len(u) => u[Len(c) + 1] = "?"

SameCanonical(u, v) ==
    \E k \in 0..Len(u) : /\ IsCanonical(SubSeq(u, 1, k), u)
                         /\ IsCanonical(SubSeq(u, 1, k), v)

\* C9: get_news_articles never returns two entries whose URLs are equal once
\* the query string is stripped; of the results sharing a canonical URL
\* exactly the first is kept, and kept entries stay in result order.
C9_Dedup ==
    pc = "returned" =>
        LET kept == {k \in 1..Len(articles) :
                        \A j \in 1..(k - 1) :
                            ~SameCanonical(articles[j].url, articles[k].url)}
        IN  /\ \A i, j \in 1..Len(clean_articles) :
                   i # j => ~SameCanonical(clean_articles[i].url,
                                           clean_articles[j].url)
            /\ Len(clean_articles) = Cardinality(kept)
            /\ \A i \in 1..Len(clean_articles) :
                   \E k \in kept :
                       /\ clean_articles[i] = articles[k]
                       /\ Cardinality({j \in kept : j < k}) = i - 1

\* two results that differ only in their query strings, a third one kept
C9_Witness ==
    /\ pc = "returned"
    /\ Len(articles) = 3
    /\ articles[1].url = <<"a","?","1">>
    /\ articles[2].url = <<"a","?","2">>
    /\ articles[3].url = <<"b">>
    /\ Len(clean_articles) = 2

-----------------------------------------------------------------------------
(* Claims about the frequency store and the inbox loop *)

Cadences == {DAILY, WEEKLY, FORTNIGHTLY}

\* C3: whatever runs and messages came before, the value get_current_frequency
\* returns is DAILY, WEEKLY or FORTNIGHTLY, a missing file reading as DAILY:
\* neither update_frequency nor the read gives anything else.
C3_CadenceAlwaysValid ==
    /\ get_current_frequency(file) \in Cadences
    /\ file = NoFile => get_current_frequency(file) = DAILY
    /\ freq # None => freq \in Cadences

\* a later run reads FORTNIGHTLY, which an earlier run stored from a reply
C3_Witness ==
    /\ runs = 2
    /\ pc = "should_send_email"
    /\ inbox = <<>>
    /\ file0 = FORTNIGHTLY
    /\ freq = FORTNIGHTLY

\* the two addresses are the same up to the case of their letters
SameIgnoringCase(a, b) ==
    /\ Len(a) = Len(b)
    /\ \A k \in 1..Len(a) :
           \/ a[k] = b[k]
           \/ \E j \in 1..Len(UpperChars) :
                  {a[k], b[k]} = {UpperChars[j], LowerChars[j]}

OnAllowList(msg) ==
    \E k \in 1..Len(ALLOWED_SENDERS) : SameIgnoringCase(msg.sender, ALLOWED_SENDERS[k])

\* the command the first substantive line of the message's text spells
SpokenCommand(msg) ==
    LET deciding == DecidingLines(extract_body(msg))
    IN  IF deciding = <<>> \/ ~IsSubstantive(deciding[Len(deciding)]) THEN None
        ELSE CommandOf(deciding[Len(deciding)])

\* the command of the last allow-listed message of msgs that carries one, or
\* before if there is none
LastCommand(msgs, before) ==
    LET carrying == {k \in 1..Len(msgs) :
                        OnAllowList(msgs[k]) /\ SpokenCommand(msgs[k]) # None}
    IN  IF carrying = {} THEN before
        ELSE SpokenCommand(msgs[CHOOSE a \in carrying : \A k \in carrying : k <= a])

\* C4: during inbox processing the stored cadence is changed only by an unread
\* message from an allow-listed sender whose body parses to a command: after
\* any number of messages fetched, the store holds the command of the last
\* such message among them, or what it held before the loop if there is none
\* (so a message from anyone else, or without a command, leaves it as it is).
C4_StoreFollowsLastValidCommand ==
    (pc = "check_email_for_command" /\ num >= 1) =>
        file = LastCommand(SubSeq(inbox, 1, num - 1), file0)

\* the loop has ended on a command from the allow-list followed by a command
\* from a stranger, and the store holds the former
C4_Witness ==
    /\ pc = "check_email_for_command"
    /\ Len(inbox) = 2
    /\ num = 3
    /\ OnAllowList(inbox[1]) /\ SpokenCommand(inbox[1]) = WEEKLY
    /\ inbox[2].sender = Stranger /\ SpokenCommand(inbox[2]) = FORTNIGHTLY
    /\ file0 = NoFile
    /\ file = WEEKLY

-----------------------------------------------------------------------------
(* Claims about failures inside a run *)

\* sub occurs in text
Contains(text, sub) ==
    \E k \in 0..(Len(text) - Len(sub)) : SubSeq(text, k + 1, k + Len(sub)) = sub

AnalyticsCalls == {"recent", "previous", "summarise", "chart_sources", "chart_countries"}

\* the run is over and server.send_message took a message
Sent == \/ pc = "done"
        \/ pc = "aborted" /\ \E g \in failed : g[1] = "after send_message"

\* C5: on a run that sends, a failure of either warehouse query, of the
\* analytics summarisation or of a chart is caught: the analytics section is a
\* warning holding the error text, with no images; the run goes on to the send
\* and, the mail transport taking the message, exactly one report is sent,
\* which holds the news section and the warning.
C5_AnalyticsFailureContained ==
    \A f \in failed :
        f[1] \in AnalyticsCalls =>
            /\ \/ pc \in {"send_daily_email", "done"}
               \/ pc = "aborted" /\ \E g \in failed :
                                        g[1] \in {"smtplib", "after send_message"}
            /\ ga4_step = "failed"
            /\ Contains(ga4_html, <<"(!) Error retrieving GA4 data: ">>)
            /\ Contains(ga4_html, f[2])
            /\ images = <<>>
            /\ ~Sent => outbox = <<>>
            /\ Sent =>
                   /\ Len(outbox) = 1
                   /\ Contains(outbox[1].html, news)
                   /\ Contains(outbox[1].html, ga4_html)
                   /\ outbox[1].attachments = <<>>

\* a chart failed after both queries, and the report went out with an article
C5_Witness ==
    /\ pc = "done"
    /\ \E f \in failed : f[1] = "chart_countries"
    /\ Len(windows) = 2
    /\ Len(outbox) = 1
    /\ Contains(outbox[1].html, <<"A"," ","s","u","m","m","a","r","y",".">>)

\* C6: a failing summarisation call for an article is not contained: it leaves
\* build_news_section, the run ends there, and no report is sent in that run,
\* not even one with the articles summarised so far.
C6_NewsFailureAborts ==
    \A f \in failed :
        f[1] = "summarise_article" =>
            /\ pc = "aborted"
            /\ news = None
            /\ outbox = <<>>

\* the call failed on the second article, the first one already in the section
C6_Witness ==
    /\ pc = "aborted"
    /\ \E f \in failed : f[1] = "summarise_article"
    /\ Len(pending) = 1
    /\ section # <<>>

\* C7: the 'recent' and the 'previous' window of get_ga4_data are 3-day spans
\* with no day in both, the previous one ending the day before the recent one
\* starts.
C7_WindowsDisjoint ==
    Len(windows) = 2 =>
        /\ windows[1] \cap windows[2] = {}
        /\ Cardinality(windows[1]) = 3
        /\ Cardinality(windows[2]) = 3
        /\ \E d \in windows[2] : /\ \A e \in windows[2] : e <= d
                                 /\ \A e \in windows[1] : d + 1 <= e
                                 /\ d + 1 \in windows[1]

\* C10 as stated: when a news summarisation call aborts the run, the analytics
\* section of that run is already assembled.
C10_AnalyticsAlreadyAssembled ==
    \A f \in failed :
        f[1] = "summarise_article" => ga4_step \in {"done", "failed"}

\* C10, amended: when a news summarisation call aborts the run, the analytics
\* section of that run has not been started (no warehouse query was made):
\* within a run the news section is built before the analytics section.
C10_NewsBeforeAnalytics ==
    /\ \A f \in failed :
           f[1] = "summarise_article" =>
               /\ ga4_step = "recent"
               /\ windows = <<>>
               /\ ga4_html = None
    /\ (pc = "build_ga4_section_with_charts" \/ ga4_step # "recent") =>
           news_step = "done"

\* the call failed on the first of two articles, no query made
C10_Witness ==
    /\ pc = "aborted"
    /\ \E f \in failed : f[1] = "summarise_article"
    /\ Len(pending) = 2
    /\ ga4_step = "recent"
    /\ windows = <<>>

-----------------------------------------------------------------------------
(* Claim about the comparison table *)

\* the positions of the family's rows in a frame
RowsOf(df, m) == {i \in 1..Len(df) : df[i].metric = m}

\* the pairs of the outer join on label of the family's rows: a current and a
\* previous row under one label, or a row alone (0 for the missing side)
JoinPairs(m) ==
    LET N == RowsOf(df_now, m)
        P == RowsOf(df_prev, m)
    IN  {<<i, j>> \in N \X P : df_now[i].label = df_prev[j].label}
          \cup {<<i, 0>> : i \in {n \in N : \A j \in P : df_prev[j].label # df_now[n].label}}
          \cup {<<0, j>> : j \in {q \in P : \A i \in N : df_now[i].label # df_prev[q].label}}

\* label, current and previous value of a pair, a missing side being 0
Triple(pair) ==
    <<IF pair[1] # 0 THEN df_now[pair[1]].label ELSE df_prev[pair[2]].label,
      IF pair[1] # 0 THEN df_now[pair[1]].value ELSE 0,
      IF pair[2] # 0 THEN df_prev[pair[2]].value ELSE 0>>

\* how many pairs of the join, and how many rows of the table, read t
InJoin(m, t)  == Cardinality({pair \in JoinPairs(m) : Triple(pair) = t})
InTable(t) ==
    Cardinality({k \in 1..Len(combined) :
                    <<combined[k].label, combined[k].value_now,
                      combined[k].value_prev>> = t})

\* the fraction is the percent change from prev to now
IsPercentChange(change, now, prev) ==
    /\ change.den # 0
    /\ change.num * (IF prev # 0 THEN prev ELSE 1) = (now - prev) * 100 * change.den

\* C8: for each family the table is the outer join on label of the current and
\* the previous rows, a missing side being 0; each row's change is
\* (current - previous) / (previous if previous != 0 else 1) * 100; and the
\* table holds the at most 5 rows of largest current value, in descending
\* order.  So current 120 without a previous row gives previous 0 and change
\* 12000, and previous 50 with current 25 gives change -50.
C8_ComparisonTable ==
    metric # "none" =>
        LET triples == {Triple(pair) : pair \in JoinPairs(metric)}
            size    == Cardinality(JoinPairs(metric))
        IN  /\ Len(combined) = IF size < 5 THEN size ELSE 5
            /\ \A k \in 1..Len(combined) :
                   LET r == combined[k]
                       t == <<r.label, r.value_now, r.value_prev>>
                   IN  /\ t \in triples
                       /\ InTable(t) <= InJoin(metric, t)
                       /\ IsPercentChange(r.change, r.value_now, r.value_prev)
                       /\ (r.value_now = 120 /\ r.value_prev = 0) =>
                              r.change.num = 12000 * r.change.den
                       /\ (r.value_now = 25 /\ r.value_prev = 50) =>
                              r.change.num = (0 - 50) * r.change.den
            /\ \A j, k \in 1..Len(combined) :
                   j < k => combined[j].value_now >= combined[k].value_now
            /\ \A t \in triples :
                   InTable(t) < InJoin(metric, t) =>
                       \A k \in 1..Len(combined) : t[2] <= combined[k].value_now

\* six rows joined, five shown: two new entrants under one label first, one
\* of them 120 strong, a label halved from 50 to 25, and a label of the
\* previous window only that made it into the table
C8_Witness ==
    /\ metric = "sources"
    /\ Cardinality(JoinPairs(metric)) = 6
    /\ Len(combined) = 5
    /\ combined[1].label = combined[2].label
    /\ combined[2].value_now = 120 /\ combined[2].value_prev = 0
    /\ combined[3].value_now = 25 /\ combined[3].value_prev = 50
    /\ combined[5].value_now = 0 /\ combined[5].value_prev > 0

====
